---- MODULE Spec2Model ----
(***************************************************************************)
(* State-machine model of the chat agents of agent-as-code:                *)
(*   examples/basic-chatbot/main.py        ("basic")                       *)
(*   internal/templates/chatbot/main.py    ("internal")                    *)
(*   templates/chatbot/main.py             ("template")                    *)
(* One behaviour of Spec is one run of one of the three programs, chosen   *)
(* with its configuration (environment) in Init.                           *)
(*                                                                         *)
(* Text is a sequence of one-character strings so that lower(), strip(),   *)
(* split(',') and the substring test are computed, not assumed.  Long      *)
(* fixed texts (system prompt, canned replies) are one opaque token.       *)
(***************************************************************************)
EXTENDS Naturals, Integers, Sequences, FiniteSets

VARIABLES
    app,                   \* which program this run is
    env_max_history,       \* MAX_CONVERSATION_HISTORY, after int()
    env_keywords,          \* ESCALATION_KEYWORDS, the raw setting
    env_provider,          \* MODEL_PROVIDER, the raw setting
    env_api_key,           \* OPENAI_API_KEY, None or text
    now,                   \* wall clock, in ticks
    conversation_history,  \* basic: conv id -> list of turns
    agent_history,         \* internal: session id -> history.messages
    inflight,              \* internal: requests suspended in the backend call
    llm_client,            \* template: the module-level client, or the startup error
    resp,                  \* what the last completed request returned
    last_chat,             \* per conversation id, the last completed POST /chat
    nreq                   \* HTTP requests received so far

vars == <<app, env_max_history, env_keywords, env_provider, env_api_key, now,
          conversation_history, agent_history, inflight, llm_client, resp,
          last_chat, nreq>>

-----------------------------------------------------------------------------
(* Bounds of the model                                                     *)

MaxRequests == 3        \* HTTP requests per run
MaxTime == 2            \* clock ticks per run
MaxHistoryBound == 2    \* configured max-history values 0..MaxHistoryBound, and the default
MaxSettingLen == 3      \* classifier inputs: length of the keyword setting
MaxMessageLen == 2      \* classifier inputs: length of the message

TicksPerSecond == 2     \* clock ticks in one second of the timestamp format

-----------------------------------------------------------------------------
(* Text                                                                    *)

None == <<"None">>

UpperCase == <<"A","B","C","D","E","F","G","H","I","J","K","L","M",
               "N","O","P","Q","R","S","T","U","V","W","X","Y","Z">>
LowerCase == <<"a","b","c","d","e","f","g","h","i","j","k","l","m",
               "n","o","p","q","r","s","t","u","v","w","x","y","z">>

LowerChar(c) ==
    IF \E i \in 1..Len(UpperCase) : UpperCase[i] = c
    THEN LowerCase[CHOOSE i \in 1..Len(UpperCase) : UpperCase[i] = c]
    ELSE c

\* str.lower()
lower(s) == [i \in 1..Len(s) |-> LowerChar(s[i])]

IsSpace(c) == c \in {" ", "\t", "\n"}

RECURSIVE lstrip(_)
lstrip(s) == IF s # <<>> /\ IsSpace(s[1]) THEN lstrip(Tail(s)) ELSE s

RECURSIVE rstrip(_)
rstrip(s) ==
    IF s # <<>> /\ IsSpace(s[Len(s)]) THEN rstrip(SubSeq(s, 1, Len(s) - 1)) ELSE s

\* str.strip()
strip(s) == rstrip(lstrip(s))

\* str.split(sep) for a one-character separator: never an empty list
RECURSIVE split(_, _)
split(s, sep) ==
    IF \E i \in 1..Len(s) : s[i] = sep
    THEN LET i == CHOOSE k \in 1..Len(s) :
                     s[k] = sep /\ \A j \in 1..(k - 1) : s[j] # sep
         IN  <<SubSeq(s, 1, i - 1)>> \o split(SubSeq(s, i + 1, Len(s)), sep)
    ELSE <<s>>

\* needle in hay (Python's substring test; '' is in every string)
contains(needle, hay) ==
    \E i \in 0..(Len(hay) - Len(needle)) :
        SubSeq(hay, i + 1, i + Len(needle)) = needle

\* python: s[-n:] for n >= 0 (s[-0:] is s[0:], the whole list)
LastN(s, n) ==
    IF n = 0 \/ n >= Len(s) THEN s ELSE SubSeq(s, Len(s) - n + 1, Len(s))

-----------------------------------------------------------------------------
(* Configuration                                                           *)

DefaultMaxHistory == 10
DefaultKeywords ==
    <<"h","u","m","a","n",",","m","a","n","a","g","e","r",",",
      "s","u","p","e","r","v","i","s","o","r",",","e","s","c","a","l","a","t","e">>
EmptySetting == <<>>

MaxHistories == (0..MaxHistoryBound) \cup {DefaultMaxHistory}

\* the configurations explored: every max-history value with the default
\* keywords, and the default max-history with no keywords configured
Configs ==
    {<<m, DefaultKeywords>> : m \in MaxHistories} \cup {<<DefaultMaxHistory, EmptySetting>>}

\* basic: [kw.strip() for kw in setting.split(',')]
ESCALATION_KEYWORDS(setting) ==
    LET parts == split(setting, ",")
    IN  [i \in 1..Len(parts) |-> strip(parts[i])]

\* internal: setting.split(",")
escalation_keywords(setting) == split(setting, ",")

\* any(keyword.lower() in message.lower() for keyword in keywords)
escalation_check(message, keywords) ==
    \E m \in {lower(message)} :
        \E i \in 1..Len(keywords) :
            \E k \in {lower(keywords[i])} : contains(k, m)

-----------------------------------------------------------------------------
(* Requests and turns                                                      *)

MsgHi == <<"h","i">>
MsgThanks == <<"t","h","a","n","k","s">>
MsgManager == <<"I"," ","w","a","n","t"," ","t","o"," ","t","a","l","k"," ",
                "t","o"," ","a"," ","M","a","n","a","g","e","r">>
Messages == {MsgHi, MsgThanks, MsgManager}
AgentMessages == {MsgHi, MsgManager}

Replies == {<<"r","1">>}

\* the ids a client sends: one of its own choosing, one the server handed out
\* earlier that it continues, or none
NoId == <<"", 0>>
ClientIds == {<<"c", 1>>, <<"conv_", 0>>}
SessionIds == {<<"c", 1>>}

SYSTEM_PROMPT == <<"You are a helpful customer support agent for a technology company. ...">>
BASIC_ESCALATION_TEXT ==
    <<"I understand you'd like to speak with a human agent. I'm connecting you with our support team now. Please hold on while I transfer your conversation.">>

ChatMessage(r, c) == [role |-> r, content |-> c]

\* datetime.now().strftime('%Y%m%d_%H%M%S'): the time truncated to whole seconds
strftime(t) == t \div TicksPerSecond

\* request.conversation_id or f"conv_{...}"
conv_id_of(given, t) == IF given = NoId THEN <<"conv_", strftime(t)>> ELSE given

NoChat == [status |-> 0]
NoResp == [op |-> "none"]

-----------------------------------------------------------------------------
(* examples/basic-chatbot                                                  *)

\* a handler that forgets the stored list and starts every request afresh
basic_appended_fresh(store, conv_id, message) ==
    <<ChatMessage("system", SYSTEM_PROMPT), ChatMessage("user", message)>>

\* lines 86-93: the list the handler works on after the system and user turns
\* are appended.  conversation_history.get(conv_id, []) returns the stored list
\* object itself when there is one, so these appends are made to it in place.
basic_appended(store, conv_id, message) ==
    LET h0 == IF conv_id \in DOMAIN store THEN store[conv_id] ELSE <<>>
        h1 == IF h0 = <<>> THEN <<ChatMessage("system", SYSTEM_PROMPT)>> ELSE h0
    IN  Append(h1, ChatMessage("user", message))

\* lines 96-97: trim to max length (keep system message); builds a new list
basic_trim(history, max) ==
    IF Len(history) > max + 1
    THEN <<history[1]>> \o LastN(history, max)
    ELSE history

\* the store as the in-place appends of lines 90 and 93 leave it
basic_store_after_appends(store, conv_id, message) ==
    IF conv_id \in DOMAIN store
    THEN [store EXCEPT ![conv_id] = basic_appended(store, conv_id, message)]
    ELSE store

\* line 123: conversation_history[conv_id] = history
store_put(store, conv_id, history) ==
    [c \in DOMAIN store \cup {conv_id} |-> IF c = conv_id THEN history ELSE store[c]]

\* the completion backend's answer to one call: an error, or a reply
BackendOutcomes ==
    {[ok |-> FALSE, content |-> <<>>]} \cup {[ok |-> TRUE, content |-> r] : r \in Replies}

\* a handler that asks the backend first and looks for keywords afterwards
basic_handle_backend_first(store, conv_id, message, max, keywords, outcome) ==
    LET appended == basic_appended(store, conv_id, message)
        history == basic_trim(appended, max)
        in_place == basic_store_after_appends(store, conv_id, message)
        escalation_triggered == escalation_check(message, keywords)
        response == IF escalation_triggered THEN BASIC_ESCALATION_TEXT ELSE outcome.content
    IN  IF outcome.ok
        THEN [status |-> 200, response |-> response,
              escalation_triggered |-> escalation_triggered, calls |-> 1, sent |-> history,
              phases |-> <<"RECEIVED", "SESSION_RESOLVED", "COMPLETION_REQUESTED", "RESPONDED">>,
              trimmed |-> history # appended,
              store |-> store_put(in_place, conv_id,
                          Append(history, ChatMessage("assistant", response)))]
        ELSE [status |-> 500, response |-> <<>>,
              escalation_triggered |-> escalation_triggered, calls |-> 1, sent |-> history,
              phases |-> <<"RECEIVED", "SESSION_RESOLVED", "COMPLETION_REQUESTED", "FAILED">>,
              trimmed |-> FALSE,
              store |-> in_place]

\* a handler that calls the backend a second time when the first call fails
basic_handle_retry(store, conv_id, message, max, keywords, outcome) ==
    LET appended == basic_appended(store, conv_id, message)
        history == basic_trim(appended, max)
        in_place == basic_store_after_appends(store, conv_id, message)
        escalation_triggered == escalation_check(message, keywords)
    IN  IF escalation_triggered
        THEN [status |-> 200, response |-> BASIC_ESCALATION_TEXT,
              escalation_triggered |-> TRUE, calls |-> 0, sent |-> <<>>,
              phases |-> <<"RECEIVED", "SESSION_RESOLVED", "ESCALATED", "RESPONDED">>,
              trimmed |-> history # appended,
              store |-> store_put(in_place, conv_id,
                          Append(history, ChatMessage("assistant", BASIC_ESCALATION_TEXT)))]
        ELSE IF outcome.ok
        THEN [status |-> 200, response |-> outcome.content,
              escalation_triggered |-> FALSE, calls |-> 1, sent |-> history,
              phases |-> <<"RECEIVED", "SESSION_RESOLVED", "COMPLETION_REQUESTED", "RESPONDED">>,
              trimmed |-> history # appended,
              store |-> store_put(in_place, conv_id,
                          Append(history, ChatMessage("assistant", outcome.content)))]
        ELSE [status |-> 500, response |-> <<>>,
              escalation_triggered |-> FALSE, calls |-> 2, sent |-> history,
              phases |-> <<"RECEIVED", "SESSION_RESOLVED", "COMPLETION_REQUESTED",
                           "COMPLETION_REQUESTED", "FAILED">>,
              trimmed |-> FALSE,
              store |-> in_place]

\* lines 75-135: the handler as a function of the store, the request and the
\* backend's answer; `store` is conversation_history when the handler ends
basic_handle(store, conv_id, message, max, keywords, outcome) ==
    LET appended == basic_appended(store, conv_id, message)
        history == basic_trim(appended, max)
        in_place == basic_store_after_appends(store, conv_id, message)
        escalation_triggered == escalation_check(message, keywords)
    IN  IF escalation_triggered
        THEN [status |-> 200, response |-> BASIC_ESCALATION_TEXT,
              escalation_triggered |-> TRUE, calls |-> 0, sent |-> <<>>,
              phases |-> <<"RECEIVED", "SESSION_RESOLVED", "ESCALATED", "RESPONDED">>,
              trimmed |-> history # appended,
              store |-> store_put(in_place, conv_id,
                          Append(history, ChatMessage("assistant", BASIC_ESCALATION_TEXT)))]
        ELSE IF outcome.ok
        THEN [status |-> 200, response |-> outcome.content,
              escalation_triggered |-> FALSE, calls |-> 1, sent |-> history,
              phases |-> <<"RECEIVED", "SESSION_RESOLVED", "COMPLETION_REQUESTED", "RESPONDED">>,
              trimmed |-> history # appended,
              store |-> store_put(in_place, conv_id,
                          Append(history, ChatMessage("assistant", outcome.content)))]
        ELSE [status |-> 500, response |-> <<>>,
              escalation_triggered |-> FALSE, calls |-> 1, sent |-> history,
              phases |-> <<"RECEIVED", "SESSION_RESOLVED", "COMPLETION_REQUESTED", "FAILED">>,
              trimmed |-> FALSE,
              store |-> in_place]

PrevChat(conv_id) == IF conv_id \in DOMAIN last_chat THEN last_chat[conv_id] ELSE NoChat

\* the record kept of a completed POST /chat on conv_id: its outcome, and for
\* the list now stored under conv_id (if any) how many turns lines 93 and 122
\* have appended to it and whether line 97 has ever replaced it
ChatRecord(store, conv_id, message, r) ==
    LET stored == conv_id \in DOMAIN store
        before == IF stored THEN PrevChat(conv_id).appended ELSE 0
    IN  [status |-> r.status, escalated |-> r.escalation_triggered,
         message |-> message, response |-> r.response,
         appended |-> IF r.status = 200 THEN before + 2
                      ELSE IF stored THEN before + 1 ELSE 0,
         trimmed |-> (stored /\ PrevChat(conv_id).trimmed) \/ r.trimmed]

\* POST /chat
basic_chat ==
    /\ app = "basic"
    /\ nreq < MaxRequests
    /\ \E keywords \in {ESCALATION_KEYWORDS(env_keywords)} :
       \E given \in ClientIds \cup {NoId}, message \in Messages, outcome \in BackendOutcomes :
         \E conv_id \in {conv_id_of(given, now)} :
         \E r \in {basic_handle(conversation_history, conv_id, message, env_max_history,
                                keywords, outcome)} :
             /\ conversation_history' = r.store
             /\ resp' = [op |-> "chat", status |-> r.status, conversation_id |-> conv_id,
                         given |-> given, message |-> message, response |-> r.response,
                         escalation_triggered |-> r.escalation_triggered,
                         calls |-> r.calls, sent |-> r.sent, phases |-> r.phases,
                         prev |-> PrevChat(conv_id)]
             /\ last_chat' = store_put(last_chat, conv_id,
                               ChatRecord(conversation_history, conv_id, message, r))
    /\ nreq' = nreq + 1
    /\ UNCHANGED <<app, env_max_history, env_keywords, env_provider, env_api_key, now,
                   agent_history, inflight, llm_client>>

\* the ids a client can name: its own, and the ones the server generates
KnownIds == ClientIds \cup {<<"conv_", s>> : s \in 0..strftime(MaxTime)}

\* lines 137-145: GET /conversations/{conversation_id}
get_conversation_result(store, conversation_id) ==
    LET history == IF conversation_id \in DOMAIN store THEN store[conversation_id] ELSE <<>>
    IN  [op |-> "get_conversation", status |-> 200, conversation_id |-> conversation_id,
         found |-> conversation_id \in DOMAIN store,
         messages |-> history, message_count |-> Len(history)]

get_conversation ==
    /\ app = "basic"
    /\ nreq < MaxRequests
    /\ \E conversation_id \in KnownIds :
         resp' = get_conversation_result(conversation_history, conversation_id)
    /\ nreq' = nreq + 1
    /\ UNCHANGED <<app, env_max_history, env_keywords, env_provider, env_api_key, now,
                   conversation_history, agent_history, inflight, llm_client, last_chat>>

\* del d[k]
store_del(store, k) == [c \in DOMAIN store \ {k} |-> store[c]]

\* a clear operation that empties the whole store
clear_conversation_result_all(store, conversation_id) ==
    IF conversation_id \in DOMAIN store
    THEN [status |-> 200, store |-> << >>]
    ELSE [status |-> 404, store |-> store]

\* what is remembered of a conversation id after its DELETE
Cleared == [status |-> 0, cleared |-> TRUE]

\* lines 147-155: DELETE /conversations/{conversation_id}
clear_conversation_result(store, conversation_id) ==
    IF conversation_id \in DOMAIN store
    THEN [status |-> 200, store |-> store_del(store, conversation_id)]
    ELSE [status |-> 404, store |-> store]

clear_conversation ==
    /\ app = "basic"
    /\ nreq < MaxRequests
    /\ \E conversation_id \in KnownIds :
         \E r \in {clear_conversation_result(conversation_history, conversation_id)} :
             /\ conversation_history' = r.store
             /\ resp' = [op |-> "clear_conversation", status |-> r.status,
                         conversation_id |-> conversation_id,
                         found |-> conversation_id \in DOMAIN conversation_history]
             /\ last_chat' = IF r.status = 200
                               THEN store_put(last_chat, conversation_id, Cleared)
                               ELSE store_del(last_chat, conversation_id)
    /\ nreq' = nreq + 1
    /\ UNCHANGED <<app, env_max_history, env_keywords, env_provider, env_api_key, now,
                   agent_history, inflight, llm_client>>

\* sum(len(history) for history in store.values())
RECURSIVE SumLen(_, _)
SumLen(store, ids) ==
    IF ids = {} THEN 0
    ELSE LET c == CHOOSE x \in ids : TRUE
         IN  Len(store[c]) + SumLen(store, ids \ {c})

\* statistics that leave the system turns out of the message count
get_stats_result_no_system(store) ==
    [op |-> "get_stats", status |-> 200,
     total_conversations |-> Cardinality(DOMAIN store),
     total_messages |-> SumLen(store, DOMAIN store) - Cardinality(DOMAIN store),
     active_conversations |-> Cardinality(DOMAIN store)]

\* lines 157-169: GET /stats
get_stats_result(store) ==
    [op |-> "get_stats", status |-> 200,
     total_conversations |-> Cardinality(DOMAIN store),
     total_messages |-> SumLen(store, DOMAIN store),
     active_conversations |-> Cardinality(DOMAIN store)]

get_stats ==
    /\ app = "basic"
    /\ nreq < MaxRequests
    /\ resp' = get_stats_result(conversation_history)
    /\ nreq' = nreq + 1
    /\ UNCHANGED <<app, env_max_history, env_keywords, env_provider, env_api_key, now,
                   conversation_history, agent_history, inflight, llm_client, last_chat>>

\* lines 69-72: GET /health
health_check ==
    /\ app = "basic"
    /\ nreq < MaxRequests
    /\ resp' = [op |-> "health_check", status |-> 200]
    /\ nreq' = nreq + 1
    /\ UNCHANGED <<app, env_max_history, env_keywords, env_provider, env_api_key, now,
                   conversation_history, agent_history, inflight, llm_client, last_chat>>

\* time passes (the clock is read only when a request arrives, so it is
\* followed only while a further request can arrive)
Tick ==
    /\ now < MaxTime
    /\ nreq < MaxRequests
    /\ now' = now + 1
    /\ UNCHANGED <<app, env_max_history, env_keywords, env_provider, env_api_key,
                   conversation_history, agent_history, inflight, llm_client, resp,
                   last_chat, nreq>>

-----------------------------------------------------------------------------
(* internal/templates/chatbot                                              *)

AGENT_SYSTEM_PROMPT ==
    <<"You are a helpful customer support assistant. Be friendly, professional, and helpful.">>
AGENT_ESCALATION_TEXT ==
    <<"I understand you'd like to speak with a human representative. I'm transferring you to our support team. Please hold while I connect you.">>

Slots == {1, 2}
Idle == [pc |-> "idle"]

\* the task a new request runs in: tasks are anonymous, so the first free one
FreeSlot == {s \in Slots : inflight[s] = Idle /\ \A t \in Slots : t < s => inflight[t] # Idle}

\* request.session_id or f"session_{datetime.now().timestamp()}"
session_id_of(given, t) == IF given = NoId THEN <<"session_", t>> ELSE given

\* lines 65-70: get or create conversation history
agent_get_or_create(store, session_id) ==
    IF session_id \in DOMAIN store THEN store ELSE store_put(store, session_id, <<>>)

\* lines 82-91: the transcript for the backend
agent_transcript(messages, max, message) ==
    <<ChatMessage("system", AGENT_SYSTEM_PROMPT)>> \o LastN(messages, max)
        \o <<ChatMessage("user", message)>>

\* a trim that keeps max turns where the code keeps max * 2
agent_trim_turns(messages, max) ==
    IF Len(messages) > max * 2 THEN LastN(messages, max) ELSE messages

\* lines 112-113: trim history if too long
agent_trim(messages, max) ==
    IF Len(messages) > max * 2 THEN LastN(messages, max * 2) ELSE messages

\* lines 105-113: history.messages.extend([user, assistant]), then trim
agent_update(store, session_id, message, response_text, max) ==
    [store EXCEPT ![session_id] =
        agent_trim(@ \o <<ChatMessage("user", message),
                          ChatMessage("assistant", response_text)>>, max)]

AgentResp(session_id, given, message, status, response, escalated, calls, sent, phases, prev) ==
    [op |-> "chat", status |-> status, conversation_id |-> session_id, given |-> given,
     message |-> message, response |-> response, escalation_triggered |-> escalated,
     calls |-> calls, sent |-> sent, phases |-> phases, prev |-> prev]

\* lines 59-100: process_message up to the await of the backend call; an
\* escalated request has no await and runs to its end
process_message_begin ==
    /\ app = "internal"
    /\ nreq < MaxRequests
    /\ \E keywords \in {escalation_keywords(env_keywords)} :
       \E slot \in FreeSlot, given \in SessionIds \cup {NoId}, message \in AgentMessages :
         \E session_id \in {session_id_of(given, now)} :
         \E store \in {agent_get_or_create(agent_history, session_id)} :
         \E history \in {store[session_id]} :
             /\ inflight[slot] = Idle
             /\ IF escalation_check(message, keywords)
                THEN /\ agent_history' = agent_update(store, session_id, message,
                                                      AGENT_ESCALATION_TEXT, env_max_history)
                     /\ resp' = AgentResp(session_id, given, message, 200,
                                  AGENT_ESCALATION_TEXT, TRUE, 0, <<>>,
                                  <<"RECEIVED", "SESSION_RESOLVED", "ESCALATED", "RESPONDED">>,
                                  PrevChat(session_id))
                     /\ last_chat' = store_put(last_chat, session_id,
                                       [status |-> 200, escalated |-> TRUE,
                                        message |-> message,
                                        response |-> AGENT_ESCALATION_TEXT])
                     /\ UNCHANGED inflight
                ELSE /\ agent_history' = store
                     /\ inflight' = [inflight EXCEPT ![slot] =
                            [pc |-> "awaiting", session_id |-> session_id, given |-> given,
                             message |-> message,
                             messages |-> agent_transcript(history, env_max_history, message),
                             calls |-> 1,
                             phases |-> <<"RECEIVED", "SESSION_RESOLVED", "COMPLETION_REQUESTED">>,
                             prev |-> PrevChat(session_id)]]
                     /\ UNCHANGED <<resp, last_chat>>
    /\ nreq' = nreq + 1
    /\ UNCHANGED <<app, env_max_history, env_keywords, env_provider, env_api_key, now,
                   conversation_history, llm_client>>

\* lines 102-123: process_message from the backend's answer to its end
process_message_end ==
    /\ app = "internal"
    /\ \E slot \in Slots, outcome \in BackendOutcomes :
         \E req \in {inflight[slot]} :
             /\ req # Idle
             /\ inflight' = [inflight EXCEPT ![slot] = Idle]
             /\ IF outcome.ok
                THEN /\ agent_history' = agent_update(agent_history, req.session_id,
                                            req.message, outcome.content, env_max_history)
                     /\ resp' = AgentResp(req.session_id, req.given, req.message, 200,
                                  outcome.content, FALSE, req.calls, req.messages,
                                  Append(req.phases, "RESPONDED"), req.prev)
                     /\ last_chat' = store_put(last_chat, req.session_id,
                                       [status |-> 200, escalated |-> FALSE,
                                        message |-> req.message,
                                        response |-> outcome.content])
                ELSE /\ agent_history' = agent_history
                     /\ resp' = AgentResp(req.session_id, req.given, req.message, 500,
                                  <<>>, FALSE, req.calls, req.messages,
                                  Append(req.phases, "FAILED"), req.prev)
                     /\ last_chat' = store_put(last_chat, req.session_id,
                                       [status |-> 500, escalated |-> FALSE,
                                        message |-> req.message, response |-> <<>>])
    /\ UNCHANGED <<app, env_max_history, env_keywords, env_provider, env_api_key, now,
                   conversation_history, llm_client, nreq>>

-----------------------------------------------------------------------------
(* templates/chatbot                                                       *)

ProviderSettings ==
    { <<"o","p","e","n","a","i">>, <<"O","p","e","n","A","I">>,
      <<"o","l","l","a","m","a">>, <<"O","L","L","A","M","A">>,
      <<"a","z","u","r","e">>, <<>> }
ApiKeys == { None, <<>>, <<"s","k">> }

\* lines 58-64: OpenAIClient.__init__
OpenAIClient_init(api_key) ==
    IF api_key = None \/ api_key = <<>> THEN "ValueError" ELSE "OpenAIClient"

\* a selection that compares the provider setting as written
create_llm_client_case_sensitive(MODEL_PROVIDER, OPENAI_API_KEY) ==
    IF MODEL_PROVIDER = <<"o","l","l","a","m","a">> THEN "OllamaClient"
    ELSE IF MODEL_PROVIDER = <<"o","p","e","n","a","i">> THEN OpenAIClient_init(OPENAI_API_KEY)
    ELSE "ValueError"

\* lines 137-150: create_llm_client
create_llm_client(MODEL_PROVIDER, OPENAI_API_KEY) ==
    LET provider == lower(MODEL_PROVIDER)
    IN  IF provider = <<"o","l","l","a","m","a">> THEN "OllamaClient"
        ELSE IF provider = <<"o","p","e","n","a","i">> THEN OpenAIClient_init(OPENAI_API_KEY)
        ELSE "ValueError"

\* what requests.post does: an answer, a refused connection, or another failure
HttpOutcomes ==
    {[kind |-> "ok", content |-> r] : r \in Replies}
        \cup {[kind |-> "ConnectionError", content |-> <<>>],
              [kind |-> "HTTPError", content |-> <<>>]}

\* lines 66-95: OpenAIClient.chat -- the text, or the HTTPException it raises
OpenAIClient_chat(message, outcome) ==
    LET payload == <<ChatMessage("user", message)>>
    IN  IF outcome.kind = "ok"
        THEN [raised |-> 0, content |-> outcome.content, sent |-> payload]
        ELSE [raised |-> 500, content |-> <<>>, sent |-> payload]

\* lines 104-134: OllamaClient.chat
OllamaClient_chat(message, outcome) ==
    LET payload == <<[prompt |-> message]>>
    IN  IF outcome.kind = "ok"
        THEN [raised |-> 0, content |-> outcome.content, sent |-> payload]
        ELSE IF outcome.kind = "ConnectionError"
        THEN [raised |-> 503, content |-> <<>>, sent |-> payload]
        ELSE [raised |-> 500, content |-> <<>>, sent |-> payload]

\* lines 198-200: except Exception as e: raise HTTPException(status_code=500, ...)
\* (the HTTPException a client raises is an Exception and is caught here too)
template_chat_status(raised) == IF raised = 0 THEN 200 ELSE 500

\* lines 176-200: POST /chat
template_chat ==
    /\ app = "template"
    /\ llm_client \in {"OllamaClient", "OpenAIClient"}
    /\ nreq < MaxRequests
    /\ \E given \in ClientIds \cup {NoId}, message \in Messages, outcome \in HttpOutcomes :
         \E conversation_id \in {conv_id_of(given, now)} :
         \E r \in {IF llm_client = "OllamaClient" THEN OllamaClient_chat(message, outcome)
                                                 ELSE OpenAIClient_chat(message, outcome)} :
             /\ resp' = [op |-> "chat", status |-> template_chat_status(r.raised),
                         conversation_id |-> conversation_id, given |-> given,
                         message |-> message, response |-> r.content,
                         client_raised |-> r.raised, failure |-> outcome.kind,
                         calls |-> 1, sent |-> r.sent,
                         prev |-> PrevChat(conversation_id)]
             /\ last_chat' = store_put(last_chat, conversation_id,
                               [status |-> template_chat_status(r.raised),
                                escalated |-> FALSE, message |-> message,
                                response |-> r.content])
    /\ nreq' = nreq + 1
    /\ UNCHANGED <<app, env_max_history, env_keywords, env_provider, env_api_key, now,
                   conversation_history, agent_history, inflight, llm_client>>

-----------------------------------------------------------------------------
(* The programs                                                            *)

Apps == {"basic", "internal", "template"}

Init ==
    /\ app \in Apps
    /\ \E cfg \in (IF app = "template" THEN {<<DefaultMaxHistory, DefaultKeywords>>}
                                        ELSE Configs) :
         /\ env_max_history = cfg[1]
         /\ env_keywords = cfg[2]
    /\ env_provider \in (IF app = "template" THEN ProviderSettings
                                            ELSE {<<"o","p","e","n","a","i">>})
    /\ env_api_key \in (IF app = "template" THEN ApiKeys ELSE {<<"s","k">>})
    /\ now = 0
    /\ conversation_history = << >>
    /\ agent_history = << >>
    /\ inflight = [s \in Slots |-> Idle]
    /\ llm_client = IF app = "template" THEN create_llm_client(env_provider, env_api_key)
                                        ELSE "none"
    /\ resp = NoResp
    /\ last_chat = << >>
    /\ nreq = 0

Next ==
    \/ basic_chat
    \/ get_conversation
    \/ clear_conversation
    \/ get_stats
    \/ health_check
    \/ process_message_begin
    \/ process_message_end
    \/ template_chat
    \/ Tick

Spec == Init /\ [][Next]_vars

-----------------------------------------------------------------------------
(* The escalation classifier on its own, over every short setting and       *)
(* message of a small alphabet                                              *)

SettingAlphabet == {"a", "B", ",", " "}
MessageAlphabet == {"a", "A", "b", " "}

RECURSIVE SeqsUpTo(_, _)
SeqsUpTo(S, n) ==
    IF n = 0 THEN {<<>>}
    ELSE LET shorter == SeqsUpTo(S, n - 1)
         IN  shorter \cup {Append(q, x) : q \in {t \in shorter : Len(t) = n - 1}, x \in S}

\* one evaluation of line 102 (basic) and of line 75 (internal) on a message
classify ==
    /\ app = "classifier"
    /\ \E message \in SeqsUpTo(MessageAlphabet, MaxMessageLen) :
         resp' = [op |-> "classify", message |-> message,
                  basic |-> escalation_check(message, ESCALATION_KEYWORDS(env_keywords)),
                  internal |-> escalation_check(message, escalation_keywords(env_keywords))]
    /\ UNCHANGED <<app, env_max_history, env_keywords, env_provider, env_api_key, now,
                   conversation_history, agent_history, inflight, llm_client,
                   last_chat, nreq>>

InitClassify ==
    /\ app = "classifier"
    /\ env_max_history = DefaultMaxHistory
    /\ env_keywords \in SeqsUpTo(SettingAlphabet, MaxSettingLen)
    /\ env_provider = <<"o","p","e","n","a","i">>
    /\ env_api_key = <<"s","k">>
    /\ now = 0
    /\ conversation_history = << >>
    /\ agent_history = << >>
    /\ inflight = [s \in Slots |-> Idle]
    /\ llm_client = "none"
    /\ resp = NoResp
    /\ last_chat = << >>
    /\ nreq = 0

NextClassify == classify

SpecClassify == InitClassify /\ [][NextClassify]_vars

-----------------------------------------------------------------------------
(* Properties                                                              *)

IsChat == resp.op = "chat"

\* the keyword list the running program holds
Keywords ==
    IF app = "basic" THEN ESCALATION_KEYWORDS(env_keywords)
    ELSE escalation_keywords(env_keywords)

\* some keyword, compared case-insensitively, is a substring of the message
HasKeyword(message, keywords) ==
    \E i \in 1..Len(keywords) :
        \E k \in 0..(Len(message) - Len(keywords[i])) :
            \A j \in 1..Len(keywords[i]) :
                LowerChar(message[k + j]) = LowerChar(keywords[i][j])

CannedText == IF app = "basic" THEN BASIC_ESCALATION_TEXT ELSE AGENT_ESCALATION_TEXT

\* C1: after every request, every stored conversation (basic) and every stored
\* session (internal) holds at most 2 * max_history + 1 turns.
C1_TurnCountBound ==
    /\ \A c \in DOMAIN conversation_history :
          Len(conversation_history[c]) <= 2 * env_max_history + 1
    /\ \A c \in DOMAIN agent_history :
          Len(agent_history[c]) <= 2 * env_max_history + 1

\* C2: in basic-chatbot every stored conversation is non-empty, starts with the
\* fixed system prompt, and has no other system turn.
C2_LeadingSystemTurn ==
    \A c \in DOMAIN conversation_history :
        LET h == conversation_history[c]
        IN  /\ Len(h) >= 1
            /\ h[1] = ChatMessage("system", SYSTEM_PROMPT)
            /\ \A i \in 2..Len(h) : h[i].role # "system"

\* C3: a POST /chat whose message contains an escalation keyword answers 200
\* with the canned text (and escalation_triggered in basic-chatbot) without any
\* backend call; a message with no keyword does call the backend; a request
\* suspended in the backend call carries no keyword.
C3_EscalationShortCircuit ==
    /\ (IsChat /\ app \in {"basic", "internal"}) =>
          IF HasKeyword(resp.message, Keywords)
          THEN /\ resp.status = 200
               /\ resp.response = CannedText
               /\ resp.calls = 0
               /\ resp.sent = <<>>
               /\ (app = "basic" => resp.escalation_triggered)
          ELSE /\ resp.calls = 1
               /\ resp.response # CannedText
               /\ (app = "basic" => ~resp.escalation_triggered)
    /\ \A s \in Slots :
          inflight[s] # Idle =>
              /\ ~HasKeyword(inflight[s].message, Keywords)
              /\ inflight[s].calls = 1

C3_Witness ==
    /\ app = "basic"
    /\ IsChat
    /\ env_keywords = DefaultKeywords
    /\ resp.message = MsgManager
    /\ resp.status = 200
    /\ resp.calls = 0
    /\ resp.response = BASIC_ESCALATION_TEXT

\* C4: the decision is true iff some parsed keyword is, case-insensitively, a
\* substring of the message, and with an empty keyword setting it is false for
\* every message.
C4_Classifier ==
    resp.op = "classify" =>
        /\ resp.basic = HasKeyword(resp.message, ESCALATION_KEYWORDS(env_keywords))
        /\ resp.internal = HasKeyword(resp.message, escalation_keywords(env_keywords))
        /\ env_keywords = EmptySetting => (~resp.basic /\ ~resp.internal)

\* C5: GET and DELETE /conversations/{id} with an id not in the store answer 404.
C5_UnknownIdNotFound ==
    (resp.op \in {"get_conversation", "clear_conversation"} /\ ~resp.found) =>
        resp.status = 404

UserTurn(m) == ChatMessage("user", m)
AssistantTurn(m) == ChatMessage("assistant", m)

\* the transcript ends with the previous call's user turn, its reply, and the
\* new user message
CarriesForward(transcript, prev, message) ==
    /\ Len(transcript) >= 3
    /\ SubSeq(transcript, Len(transcript) - 2, Len(transcript))
         = <<UserTurn(prev.message), AssistantTurn(prev.response), UserTurn(message)>>

PrevSucceeded(prev) == prev.status = 200 /\ ~prev.escalated

\* C6: with the default max-history, when the previous POST /chat on the same
\* conversation id succeeded without escalation, the transcript of the next
\* non-escalating call on that id ends with the previous user turn, the previous
\* reply and the new user message, in that order (basic and internal).
C6_HistoryCarriedForward ==
    env_max_history = DefaultMaxHistory =>
        /\ (IsChat /\ app \in {"basic", "internal"} /\ resp.calls >= 1
                /\ PrevSucceeded(resp.prev))
              => CarriesForward(resp.sent, resp.prev, resp.message)
        /\ \A s \in Slots :
              (inflight[s] # Idle /\ PrevSucceeded(inflight[s].prev))
                  => CarriesForward(inflight[s].messages, inflight[s].prev,
                                    inflight[s].message)

C6_Witness ==
    /\ app = "basic"
    /\ env_max_history = DefaultMaxHistory
    /\ IsChat
    /\ resp.status = 200
    /\ ~resp.escalation_triggered
    /\ PrevSucceeded(resp.prev)
    /\ resp.prev.message # resp.message
    /\ Len(resp.sent) = 4

\* C7: with the Ollama provider, a refused connection during POST /chat reaches
\* the caller as status 503.
C7_Unavailable503 ==
    (app = "template" /\ IsChat /\ llm_client = "OllamaClient"
        /\ resp.failure = "ConnectionError") => resp.status = 503

\* the turns held in the store, counted one by one
StoredTurns == UNION {{<<c, i>> : i \in 1..Len(conversation_history[c])} :
                        c \in DOMAIN conversation_history}

\* every stored conversation has had exactly m turns appended and none trimmed
EachAppended(m) ==
    \A c \in DOMAIN conversation_history :
        ~last_chat[c].trimmed /\ last_chat[c].appended = m

StatsAgree ==
    resp.op = "get_stats" =>
        /\ resp.total_conversations = Cardinality(DOMAIN conversation_history)
        /\ resp.total_messages = Cardinality(StoredTurns)
        /\ \A c \in DOMAIN conversation_history :
              EachAppended(last_chat[c].appended) =>
                  resp.total_messages =
                      Cardinality(DOMAIN conversation_history) * last_chat[c].appended
                          + Cardinality(DOMAIN conversation_history)

StatsStep == nreq' # nreq /\ resp'.op = "get_stats"

\* C8: GET /stats reports the number of stored conversation ids and the sum of
\* their stored turn counts, which is N*M + N when each of the N conversations
\* has had M turns appended and none trimmed; and the call leaves the store as
\* it was.
C8_Stats ==
    /\ []StatsAgree
    /\ [][StatsStep => conversation_history' = conversation_history]_vars

C8_Witness ==
    /\ resp.op = "get_stats"
    /\ Cardinality(DOMAIN conversation_history) = 2
    /\ EachAppended(2)
    /\ resp.total_conversations = 2
    /\ resp.total_messages = 6

CompletePaths ==
    { <<"RECEIVED", "SESSION_RESOLVED", "ESCALATED", "RESPONDED">>,
      <<"RECEIVED", "SESSION_RESOLVED", "COMPLETION_REQUESTED", "RESPONDED">>,
      <<"RECEIVED", "SESSION_RESOLVED", "COMPLETION_REQUESTED", "FAILED">> }

Requested(phases) == Cardinality({i \in 1..Len(phases) : phases[i] = "COMPLETION_REQUESTED"})

\* C9: every completed POST /chat (basic and internal) went through one of the
\* three paths RECEIVED, SESSION_RESOLVED, then ESCALATED or
\* COMPLETION_REQUESTED, then RESPONDED, or FAILED after COMPLETION_REQUESTED;
\* it answered 200 exactly when it ended RESPONDED and 500 exactly when it ended
\* FAILED; the backend was called once per COMPLETION_REQUESTED, so at most
\* once; a suspended request is in COMPLETION_REQUESTED after one call.
C9_RequestLifecycle ==
    /\ (IsChat /\ app \in {"basic", "internal"}) =>
          /\ resp.phases \in CompletePaths
          /\ resp.calls = Requested(resp.phases)
          /\ resp.calls <= 1
          /\ (resp.status = 200) = (resp.phases[Len(resp.phases)] = "RESPONDED")
          /\ (resp.status = 500) = (resp.phases[Len(resp.phases)] = "FAILED")
          /\ resp.escalation_triggered = (resp.phases[3] = "ESCALATED")
    /\ \A s \in Slots :
          inflight[s] # Idle =>
              /\ inflight[s].phases = <<"RECEIVED", "SESSION_RESOLVED", "COMPLETION_REQUESTED">>
              /\ inflight[s].calls = 1

C9_Witness ==
    /\ app = "basic"
    /\ IsChat
    /\ resp.status = 500
    /\ resp.phases = <<"RECEIVED", "SESSION_RESOLVED", "COMPLETION_REQUESTED", "FAILED">>
    /\ resp.calls = 1

\* the setting spells the word, in any letter case
Spells(setting, word) ==
    /\ Len(setting) = Len(word)
    /\ \A i \in 1..Len(word) :
          \/ setting[i] = word[i]
          \/ \E k \in 1..Len(LowerCase) : LowerCase[k] = word[i] /\ UpperCase[k] = setting[i]

\* C10: in templates/chatbot the client is decided by the configuration alone:
\* 'ollama' in any letter case gives the local client, 'openai' with a non-empty
\* credential the hosted client, and 'openai' without one or any other provider
\* the configuration error, after which no request is ever served.  Holding in
\* every state of a run whose configuration is fixed, the client never changes.
C10_ProviderSelection ==
    app = "template" =>
        /\ Spells(env_provider, <<"o","l","l","a","m","a">>) => llm_client = "OllamaClient"
        /\ (Spells(env_provider, <<"o","p","e","n","a","i">>)
                /\ env_api_key # None /\ env_api_key # <<>>) => llm_client = "OpenAIClient"
        /\ (Spells(env_provider, <<"o","p","e","n","a","i">>)
                /\ (env_api_key = None \/ env_api_key = <<>>)) => llm_client = "ValueError"
        /\ (~Spells(env_provider, <<"o","l","l","a","m","a">>)
                /\ ~Spells(env_provider, <<"o","p","e","n","a","i">>))
              => llm_client = "ValueError"
        /\ llm_client = "ValueError" => (nreq = 0 /\ resp = NoResp)

C10_Witness ==
    /\ app = "template"
    /\ env_provider = <<"O","L","L","A","M","A">>
    /\ llm_client = "OllamaClient"
    /\ IsChat
    /\ resp.status = 200

\* C11: in internal/templates/chatbot no two requests on the same session id
\* are between reading the history and appending their turns at the same time.
C11_PerSessionCriticalSection ==
    \A s \in Slots : \A t \in Slots :
        (s # t /\ inflight[s] # Idle /\ inflight[t] # Idle)
            => inflight[s].session_id # inflight[t].session_id

\* C12: a POST /chat without an id gets an identifier that names no stored
\* conversation, so the transcript sent for it holds, before the new user
\* message, no turn of an earlier request (only system turns).
C12_FreshIdentifier ==
    (IsChat /\ app \in {"basic", "internal"} /\ resp.given = NoId /\ resp.calls >= 1)
        => /\ Len(resp.sent) >= 1
           /\ resp.sent[Len(resp.sent)] = UserTurn(resp.message)
           /\ \A i \in 1..(Len(resp.sent) - 1) : resp.sent[i].role = "system"

\* C13: in templates/chatbot with the OpenAI client, a POST /chat on a
\* conversation id whose previous request succeeded sends the previous user
\* turn, the previous reply and the new user message, in that order.
C13_HostedFullTranscript ==
    (app = "template" /\ IsChat /\ llm_client = "OpenAIClient" /\ resp.prev.status = 200)
        => CarriesForward(resp.sent, resp.prev, resp.message)

\* a step that serves one request of examples/basic-chatbot; resp' tells which
BasicRequest(op) == app = "basic" /\ nreq' # nreq /\ resp'.op = op

\* every conversation stored before the step, except id, is stored unchanged after
OthersKept(id) ==
    \A c \in DOMAIN conversation_history \ {id} :
        c \in DOMAIN conversation_history'
            /\ conversation_history'[c] = conversation_history[c]

\* turns i..j of a transcript are all system-prompt turns
OnlySystem(transcript, i, j) ==
    \A k \in i..j : transcript[k] = ChatMessage("system", SYSTEM_PROMPT)

\* a POST /chat on an id that is not stored: what is sent, and what is stored
\* after a success, holds the system prompt and this request's turns only
StartsFromSystemPrompt ==
    LET id == resp'.conversation_id
        sent == resp'.sent
    IN  /\ resp'.calls >= 1 =>
              /\ Len(sent) >= 2
              /\ OnlySystem(sent, 1, Len(sent) - 1)
              /\ sent[Len(sent)] = UserTurn(resp'.message)
        /\ resp'.status = 200 =>
              LET h == conversation_history'[id]
              IN  /\ Len(h) >= 3
                  /\ OnlySystem(h, 1, Len(h) - 2)
                  /\ h[Len(h) - 1] = UserTurn(resp'.message)
                  /\ h[Len(h)] = AssistantTurn(resp'.response)

C14_Step ==
    app = "basic" =>
        /\ \A c \in DOMAIN conversation_history' \ DOMAIN conversation_history :
              BasicRequest("chat") /\ resp'.status = 200 /\ resp'.conversation_id = c
        /\ \A c \in DOMAIN conversation_history \ DOMAIN conversation_history' :
              BasicRequest("clear_conversation") /\ resp'.conversation_id = c
        /\ BasicRequest("clear_conversation") =>
              /\ OthersKept(resp'.conversation_id)
              /\ resp'.conversation_id \notin DOMAIN conversation_history'
              /\ DOMAIN conversation_history' \subseteq DOMAIN conversation_history
        /\ (BasicRequest("get_conversation") \/ BasicRequest("get_stats")
                \/ BasicRequest("health_check"))
              => conversation_history' = conversation_history
        /\ BasicRequest("chat") =>
              /\ OthersKept(resp'.conversation_id)
              /\ resp'.conversation_id \notin DOMAIN conversation_history
                    => StartsFromSystemPrompt

\* C14: in examples/basic-chatbot an id enters the store only by a POST /chat
\* answered 200 on it and leaves it only by a DELETE naming it; DELETE removes
\* that id and nothing else; GET /conversations/{id}, /stats and /health never
\* change the store; POST /chat changes no other id's history; and a POST /chat
\* on an id that is not stored (as after its DELETE) sends and stores nothing
\* but the system prompt and its own turns.
C14_SessionLifecycle == [][C14_Step]_vars

\* a conversation was chatted on, deleted, and chatted on again with success
C14_Witness ==
    /\ app = "basic"
    /\ IsChat
    /\ resp.status = 200
    /\ resp.calls = 1
    /\ resp.prev = Cleared
    /\ resp.conversation_id \in DOMAIN conversation_history

\* system prompt first, then user, assistant, user, ... in strict alternation
Alternates(transcript) ==
    /\ Len(transcript) >= 1
    /\ transcript[1] = ChatMessage("system", SYSTEM_PROMPT)
    /\ \A i \in 2..Len(transcript) :
          transcript[i].role = IF i % 2 = 0 THEN "user" ELSE "assistant"

\* C15: in examples/basic-chatbot every transcript sent to the backend and
\* every stored history is the system prompt followed by turns that strictly
\* alternate user, assistant, ... starting with a user turn (stated for a
\* max-history of at least 1).
C15_InterleavedShape ==
    (app = "basic" /\ env_max_history >= 1) =>
        /\ (IsChat /\ resp.calls >= 1) => Alternates(resp.sent)
        /\ \A c \in DOMAIN conversation_history : Alternates(conversation_history[c])

\* C16: in examples/basic-chatbot a POST /chat answered 500 leaves
\* conversation_history exactly as it was before the request.
C16_FailureLeavesStoreUnchanged ==
    [][(BasicRequest("chat") /\ resp'.status = 500)
          => conversation_history' = conversation_history]_vars

\* a stored session is (user, assistant) pairs: even length, user turns at the
\* odd places and assistant turns at the even ones
PairsOnly(h) ==
    /\ Len(h) % 2 = 0
    /\ \A i \in 1..Len(h) : h[i].role = IF i % 2 = 1 THEN "user" ELSE "assistant"

IsSuffix(s, t) == Len(s) <= Len(t) /\ s = SubSeq(t, Len(t) - Len(s) + 1, Len(t))

\* a step in which a request of internal/templates/chatbot reaches its end:
\* the backend's answer arrives, or an escalated request runs through
AgentCompletes ==
    \/ inflight' # inflight /\ nreq' = nreq
    \/ nreq' # nreq /\ inflight' = inflight

\* every session stored before the step, except id, is stored unchanged after
AgentOthersKept(id) ==
    \A c \in DOMAIN agent_history \ {id} :
        c \in DOMAIN agent_history' /\ agent_history'[c] = agent_history[c]

C17_Step ==
    app = "internal" =>
        IF AgentCompletes
        THEN LET id == resp'.conversation_id
                 pair == <<UserTurn(resp'.message), AssistantTurn(resp'.response)>>
                 old == IF id \in DOMAIN agent_history THEN agent_history[id] ELSE << >>
             IN  IF resp'.status = 200
                 THEN /\ id \in DOMAIN agent_history'
                      /\ Len(agent_history'[id]) >= 2
                      /\ IsSuffix(agent_history'[id], old \o pair)
                      /\ AgentOthersKept(id)
                      /\ DOMAIN agent_history' = DOMAIN agent_history \cup {id}
                 ELSE agent_history' = agent_history
        ELSE /\ AgentOthersKept(NoId)
             /\ \A c \in DOMAIN agent_history' \ DOMAIN agent_history :
                   agent_history'[c] = << >>

\* C17: in internal/templates/chatbot, under every interleaving of requests,
\* every stored session is always a sequence of (user, assistant) pairs of even
\* length, each pair the two turns of one request; a request that completes
\* with 200 leaves the session as its earlier content followed by its own pair,
\* less some of the oldest turns; a request that fails changes no session; and
\* no other step removes or changes a stored turn.
C17_NoLostOrSplitPairs ==
    /\ [](app = "internal" => \A c \in DOMAIN agent_history : PairsOnly(agent_history[c]))
    /\ [][C17_Step]_vars

\* a request that read the still empty session completes after another
\* request on the same session has stored its pair: both pairs are stored
C17_Witness ==
    /\ app = "internal"
    /\ IsChat
    /\ resp.status = 200
    /\ resp.calls = 1
    /\ Len(resp.sent) = 2
    /\ Len(agent_history[resp.conversation_id]) = 4

====
